---- MODULE Spec2Model ----
(***************************************************************************)
(* Model of the img-router SillyTavern extension (v2 source, the second    *)
(* file of src/unnamed/part_002): the generation client generateImage with *)
(* its busy flag, the SSE stream decoder, the reference image list and the *)
(* inline marker engine (processChatMessages / bindInlineEvents).          *)
(*                                                                         *)
(* Strings are sequences of one-character strings.  JSON texts are         *)
(* abstracted to four bracketed shapes (see JSONParse).                    *)
(***************************************************************************)
EXTENDS Naturals, Sequences, FiniteSets, TLC

\* ------------------------------------------------------------------ bounds
MaxLines == 2      \* lines in a streamed response body (stream decoder spec)
MaxChunk == 4      \* largest number of characters one reader.read() delivers
MaxPosts == 2      \* POST requests issued in one behaviour
MaxPrompts == 52   \* distinct prompts given to the cache and to the history

\* ------------------------------------------------------- program constants
MaxRefImages == 3
MaxHistory == 20
MaxCache == 50
KeyLen == 100
MinBase64Len == 100

\* ------------------------------------------------------------- characters
NL == "\n"
CR == "\r"
SP == " "
WhiteSpace == {SP, NL, CR}

\* JS values that may be null: a string or null
Null == [isNull |-> TRUE, val |-> <<>>]
Str(s) == [isNull |-> FALSE, val |-> s]
Truthy(v) == (~v.isNull) /\ v.val # <<>>

\* ---------------------------------------------------------- string helpers
StartsWith(s, p) == Len(s) >= Len(p) /\ SubSeq(s, 1, Len(p)) = p

\* String.prototype.indexOf, 1-based; 0 when absent
IndexOf(s, ch) ==
  IF \E i \in 1..Len(s) : s[i] = ch
  THEN CHOOSE i \in 1..Len(s) : s[i] = ch /\ \A j \in 1..(i-1) : s[j] # ch
  ELSE 0

RECURSIVE TrimLeft(_)
TrimLeft(s) ==
  IF s # <<>> /\ Head(s) \in WhiteSpace THEN TrimLeft(Tail(s)) ELSE s

RECURSIVE TrimRight(_)
TrimRight(s) ==
  IF s # <<>> /\ s[Len(s)] \in WhiteSpace
  THEN TrimRight(SubSeq(s, 1, Len(s) - 1)) ELSE s

\* String.prototype.trim
Trim(s) == TrimRight(TrimLeft(s))

RECURSIVE Flatten(_)
Flatten(ss) == IF ss = <<>> THEN <<>> ELSE Head(ss) \o Flatten(Tail(ss))

\* String.prototype.split('\n')
RECURSIVE SplitLines(_)
SplitLines(s) ==
  LET i == IndexOf(s, NL)
  IN IF i = 0 THEN <<s>>
     ELSE <<SubSeq(s, 1, i - 1)>> \o SplitLines(SubSeq(s, i + 1, Len(s)))

\* ------------------------------------------------------------------- JSON
\* Characters a JSON string value is made of in this model.
ContentChars == {"a", "b", "!", "[", "]", "(", ")", "u", "H", "P"}

IsContent(s) == \A i \in 1..Len(s) : s[i] \in ContentChars

\* JSON.parse, on the four shapes the model writes JSON in:
\*   {s}  = {"choices":[{"delta":{"content":"s"}}]}
\*   <s>  = {"choices":[{"message":{"content":"s"}}]}
\*   ~s~  = {"b64_json":"s"}
\*   ^s^  = {"error":{"message":"s"}}
\* Surrounding whitespace is ignored; anything else is a SyntaxError.
JSONParse(text) ==
  LET t == Trim(text)
      n == Len(t)
      inner == SubSeq(t, 2, n - 1)
      shape == IF n < 2 \/ ~IsContent(inner) THEN "syntax"
               ELSE IF t[1] = "{" /\ t[n] = "}" THEN "delta"
               ELSE IF t[1] = "<" /\ t[n] = ">" THEN "message"
               ELSE IF t[1] = "~" /\ t[n] = "~" THEN "b64"
               ELSE IF t[1] = "^" /\ t[n] = "^" THEN "error"
               ELSE "syntax"
  IN [ok |-> shape # "syntax", shape |-> shape,
      s |-> IF shape = "syntax" THEN <<>> ELSE inner]

\* JSON.stringify of a parsed value: the text without surrounding whitespace
JSONStringify(text) == Trim(text)

\* ---------------------------------------------------------- stream decoder
DataPrefix == <<"d", "a", "t", "a", ":">>
DoneMark == <<"[", "D", "O", "N", "E", "]">>

\* line.replace(/^data:\s*/, '')
StripDataPrefix(line) == TrimLeft(SubSeq(line, Len(DataPrefix) + 1, Len(line)))

\* the closure appendDelta: the new value of content
appendDelta(content, dataLine) ==
  IF dataLine = <<>> \/ dataLine = DoneMark THEN content
  ELSE LET json == JSONParse(dataLine)
       IN IF json.ok /\ json.shape = "delta" THEN content \o json.s
          ELSE content

\* one line of the stream, already cut out of the buffer
ProcessLine(content, rawLine) ==
  LET line == Trim(rawLine)
  IN IF StartsWith(line, DataPrefix)
     THEN appendDelta(content, StripDataPrefix(line))
     ELSE content

\* the inner while loop: consume every complete line of lineBuffer
RECURSIVE DrainLines(_, _)
DrainLinesNoBuffer(lineBuffer, content) ==
  LET lines == SplitLines(lineBuffer)
      F[i \in 0..Len(lines)] ==
        IF i = 0 THEN content ELSE ProcessLine(F[i - 1], lines[i])
  IN [lineBuffer |-> <<>>, content |-> F[Len(lines)]]

DrainLines(lineBuffer, content) ==
  LET newlineIndex == IndexOf(lineBuffer, NL)
  IN IF newlineIndex = 0
     THEN [lineBuffer |-> lineBuffer, content |-> content]
     ELSE DrainLines(SubSeq(lineBuffer, newlineIndex + 1, Len(lineBuffer)),
                     ProcessLine(content, SubSeq(lineBuffer, 1, newlineIndex - 1)))

\* after the read loop: the unterminated last line
FlushRemaining(lineBuffer, content) ==
  LET remaining == Trim(lineBuffer)
  IN IF StartsWith(remaining, DataPrefix)
     THEN appendDelta(content, StripDataPrefix(remaining))
     ELSE content

\* the chain without its JSON.parse step: the raw text is the content
StreamFallbackRawOnly(content, rawBuffer) ==
  [err |-> Null, content |-> IF content # <<>> THEN content ELSE Trim(rawBuffer)]

\* the fallback chain run when the stream left content empty
\* result: [err |-> error text or Null, content |-> ...]
StreamFallback(content, rawBuffer) ==
  IF content # <<>> \/ rawBuffer = <<>>
  THEN [err |-> Null, content |-> content]
  ELSE LET lines == SplitLines(rawBuffer)
           G[i \in 0..Len(lines)] ==
             IF i = 0 THEN content ELSE ProcessLine(G[i - 1], lines[i])
           rescanned == G[Len(lines)]
           json == JSONParse(rawBuffer)
       IN IF rescanned # <<>> THEN [err |-> Null, content |-> rescanned]
          ELSE IF ~json.ok THEN [err |-> Null, content |-> Trim(rawBuffer)]
          ELSE IF json.shape = "error"
               THEN [err |-> Str(IF json.s # <<>> THEN json.s
                                 ELSE JSONStringify(rawBuffer)),
                     content |-> <<>>]
          ELSE IF json.shape \in {"message", "b64"} /\ json.s # <<>>
               THEN [err |-> Null, content |-> json.s]
          ELSE [err |-> Null, content |-> JSONStringify(rawBuffer)]

\* --------------------------------------------------------- image extraction
\* Multi-character literals of the patterns are single symbols:
\*   H = "http://",  P = ".png",  D = "data:image/png;base64,"
DQ == "\""
SQ == "'"
Base64Chars == {"a", "b", "u", "+", "/", "="}
NoNewline(c, lo, hi) == \A x \in lo..hi : c[x] \notin {NL, CR}

\* rule 1, /!\[.*?\]\((.*?)\)/ : the <<i, j, k>> with c[i..i+1] = "![",
\* c[j..j+1] = "](", c[k] = ")" that the regex engine settles on
MdMatches(c) ==
  {t \in (1..Len(c)) \X (1..Len(c)) \X (1..Len(c)) :
     /\ t[1] + 2 <= t[2] /\ t[2] + 2 <= t[3]
     /\ c[t[1]] = "!" /\ c[t[1] + 1] = "["
     /\ c[t[2]] = "]" /\ c[t[2] + 1] = "("
     /\ c[t[3]] = ")"
     /\ NoNewline(c, t[1] + 2, t[2] - 1)
     /\ NoNewline(c, t[2] + 2, t[3] - 1)}

MdFirst(c) ==
  CHOOSE t \in MdMatches(c) :
    \A o \in MdMatches(c) :
      \/ t[1] < o[1]
      \/ t[1] = o[1] /\ t[2] < o[2]
      \/ t[1] = o[1] /\ t[2] = o[2] /\ t[3] <= o[3]

\* rule 2, /(https?:\/\/[^\s"']+\.(?:png|jpg|jpeg|webp|gif|bmp))/i
UrlChar(x) == x \notin WhiteSpace \cup {DQ, SQ}
UrlMatches(c) ==
  {t \in (1..Len(c)) \X (1..Len(c)) :
     /\ c[t[1]] = "H" /\ t[1] + 2 <= t[2] /\ c[t[2]] = "P"
     /\ \A x \in (t[1] + 1)..(t[2] - 1) : UrlChar(c[x])}
UrlFirst(c) ==
  CHOOSE t \in UrlMatches(c) :
    \A o \in UrlMatches(c) : t[1] < o[1] \/ (t[1] = o[1] /\ t[2] >= o[2])

\* rule 3, /(data:image\/[^;]+;base64,[^"\s]+)/
DataChar(x) == x \notin WhiteSpace \cup {DQ}
DataMatches(c) ==
  {t \in (1..Len(c)) \X (1..Len(c)) :
     /\ c[t[1]] = "D" /\ t[1] + 1 <= t[2]
     /\ \A x \in (t[1] + 1)..t[2] : DataChar(c[x])}
DataFirst(c) ==
  CHOOSE t \in DataMatches(c) :
    \A o \in DataMatches(c) : t[1] < o[1] \/ (t[1] = o[1] /\ t[2] >= o[2])

\* a replace that removes nothing
RemoveCharsKept(s, cs) == s

RECURSIVE RemoveChars(_, _)
RemoveChars(s, cs) ==
  IF s = <<>> THEN <<>>
  ELSE IF Head(s) \in cs THEN RemoveChars(Tail(s), cs)
  ELSE <<Head(s)>> \o RemoveChars(Tail(s), cs)

\* the rules with the url rule tried before the markdown rule
extractImageFromContentUrlRuleFirst(content) ==
  IF content = <<>> THEN Null
  ELSE IF UrlMatches(content) # {}
    THEN LET t == UrlFirst(content) IN Str(SubSeq(content, t[1], t[2]))
  ELSE IF MdMatches(content) # {}
    THEN LET t == MdFirst(content) IN Str(SubSeq(content, t[2] + 2, t[3] - 1))
  ELSE IF DataMatches(content) # {}
    THEN LET t == DataFirst(content) IN Str(SubSeq(content, t[1], t[2]))
  ELSE LET cleanContent == RemoveChars(Trim(content), WhiteSpace)
           trimmed == Trim(content)
       IN IF Len(cleanContent) > MinBase64Len
             /\ \A i \in 1..Len(cleanContent) : cleanContent[i] \in Base64Chars
          THEN Str(<<"D">> \o cleanContent)
          ELSE IF StartsWith(trimmed, <<"H">>)
          THEN Str(RemoveChars(trimmed, {SQ, DQ, "(", ")"}))
          ELSE Null

extractImageFromContent(content) ==
  IF content = <<>> THEN Null
  ELSE IF MdMatches(content) # {}
    THEN LET t == MdFirst(content) IN Str(SubSeq(content, t[2] + 2, t[3] - 1))
  ELSE IF UrlMatches(content) # {}
    THEN LET t == UrlFirst(content) IN Str(SubSeq(content, t[1], t[2]))
  ELSE IF DataMatches(content) # {}
    THEN LET t == DataFirst(content) IN Str(SubSeq(content, t[1], t[2]))
  ELSE LET cleanContent == RemoveChars(Trim(content), WhiteSpace)
           trimmed == Trim(content)
       IN IF Len(cleanContent) > MinBase64Len
             /\ \A i \in 1..Len(cleanContent) : cleanContent[i] \in Base64Chars
          THEN Str(<<"D">> \o cleanContent)
          ELSE IF StartsWith(trimmed, <<"H">>)
          THEN Str(RemoveChars(trimmed, {SQ, DQ, "(", ")"}))
          ELSE Null

\* ------------------------------------------------------ prompt normalisation
\* BR stands for a line-break tag (<br>, <br/>, <br />)
BR == "<br>"
EntLt == <<"&", "l", "t", ";">>
EntGt == <<"&", "g", "t", ";">>
EntAmp == <<"&", "a", "m", "p", ";">>
EntQuot == <<"&", "q", "u", "o", "t", ";">>
EntApos == <<"&", "#", "3", "9", ";">>

RECURSIVE ReplaceAll(_, _, _)
ReplaceAll(s, pat, rep) ==
  IF Len(s) < Len(pat) THEN s
  ELSE IF StartsWith(s, pat)
    THEN rep \o ReplaceAll(SubSeq(s, Len(pat) + 1, Len(s)), pat, rep)
  ELSE <<Head(s)>> \o ReplaceAll(Tail(s), pat, rep)

\* .replace(/&[^;]+;/g, '')
RECURSIVE RemoveEntities(_)
RemoveEntities(s) ==
  IF s = <<>> THEN <<>>
  ELSE IF Head(s) = "&" /\ IndexOf(Tail(s), ";") >= 2
    THEN RemoveEntities(SubSeq(s, IndexOf(Tail(s), ";") + 2, Len(s)))
  ELSE <<Head(s)>> \o RemoveEntities(Tail(s))

\* .replace(/\s+/g, ' ')
RECURSIVE CollapseWhiteSpace(_)
CollapseWhiteSpace(s) ==
  IF s = <<>> THEN <<>>
  ELSE IF Head(s) \in WhiteSpace THEN <<SP>> \o CollapseWhiteSpace(TrimLeft(s))
  ELSE <<Head(s)>> \o CollapseWhiteSpace(Tail(s))

Substring(s, n) == SubSeq(s, 1, IF Len(s) < n THEN Len(s) ELSE n)

getPromptCacheKey(prompt) ==
  Substring(Trim(CollapseWhiteSpace(RemoveEntities(
              ReplaceAll(prompt, <<BR>>, <<NL>>)))), KeyLen)

\* the cleanPrompt of processChatMessages, from the marker body in the HTML
cleanPrompt(body) ==
  Trim(ReplaceAll(ReplaceAll(ReplaceAll(ReplaceAll(ReplaceAll(ReplaceAll(
    body, <<BR>>, <<NL>>), EntLt, <<"<">>), EntGt, <<">">>), EntAmp, <<"&">>),
    EntQuot, <<DQ>>), EntApos, <<SQ>>))

\* What trigger.attr('data-prompt') reads back: the browser decodes the
\* character references of the attribute value in one pass.
RECURSIVE HtmlDecode(_)
HtmlDecode(s) ==
  IF s = <<>> THEN <<>>
  ELSE IF StartsWith(s, EntLt) THEN <<"<">> \o HtmlDecode(SubSeq(s, 5, Len(s)))
  ELSE IF StartsWith(s, EntGt) THEN <<">">> \o HtmlDecode(SubSeq(s, 5, Len(s)))
  ELSE IF StartsWith(s, EntAmp) THEN <<"&">> \o HtmlDecode(SubSeq(s, 6, Len(s)))
  ELSE IF StartsWith(s, EntQuot) THEN <<DQ>> \o HtmlDecode(SubSeq(s, 7, Len(s)))
  ELSE IF StartsWith(s, EntApos) THEN <<SQ>> \o HtmlDecode(SubSeq(s, 6, Len(s)))
  ELSE <<Head(s)>> \o HtmlDecode(Tail(s))

\* data-prompt of the trigger written for a marker body
TriggerPrompt(body) == HtmlDecode(ReplaceAll(cleanPrompt(body), <<DQ>>, EntQuot))

\* ------------------------------------------------------ prompt image cache
\* The cache object is the sequence of its [key, url] properties in
\* insertion order.
Digits == {"0", "1", "2", "3", "4", "5", "6", "7", "8", "9"}
DigitVal(d) == CHOOSE n \in 0..9 : <<"0", "1", "2", "3", "4", "5", "6", "7", "8", "9">>[n + 1] = d

\* an integer-like property name (ordered first, ascending, by Object.keys)
IsArrayIndex(key) ==
  /\ key # <<>>
  /\ \A i \in 1..Len(key) : key[i] \in Digits
  /\ (Len(key) > 1 => key[1] # "0")
  /\ Len(key) <= 9

RECURSIVE NumVal(_)
NumVal(key) ==
  IF key = <<>> THEN 0
  ELSE 10 * NumVal(SubSeq(key, 1, Len(key) - 1)) + DigitVal(key[Len(key)])

RECURSIVE SelectKeys(_, _)
SelectKeys(cache, wantIndex) ==
  IF cache = <<>> THEN <<>>
  ELSE IF IsArrayIndex(Head(cache).key) = wantIndex
    THEN <<Head(cache).key>> \o SelectKeys(Tail(cache), wantIndex)
  ELSE SelectKeys(Tail(cache), wantIndex)

RECURSIVE SortKeys(_)
SortKeys(keys) ==
  IF keys = <<>> THEN <<>>
  ELSE LET m == CHOOSE i \in 1..Len(keys) :
                  \A j \in 1..Len(keys) : NumVal(keys[i]) <= NumVal(keys[j])
       IN <<keys[m]>> \o SortKeys(SubSeq(keys, 1, m - 1) \o SubSeq(keys, m + 1, Len(keys)))

\* Object.keys(cache)
ObjectKeys(cache) == SortKeys(SelectKeys(cache, TRUE)) \o SelectKeys(cache, FALSE)

HasKey(cache, key) == \E i \in 1..Len(cache) : cache[i].key = key

\* cache[key] = url
CachePut(cache, key, url) ==
  IF HasKey(cache, key)
  THEN [i \in 1..Len(cache) |->
          IF cache[i].key = key THEN [key |-> key, url |-> url] ELSE cache[i]]
  ELSE Append(cache, [key |-> key, url |-> url])

\* delete cache[key]
RECURSIVE CacheDelete(_, _)
CacheDelete(cache, key) ==
  IF cache = <<>> THEN <<>>
  ELSE IF Head(cache).key = key THEN CacheDelete(Tail(cache), key)
  ELSE <<Head(cache)>> \o CacheDelete(Tail(cache), key)

\* the new cache object
cachePromptImage(cache, prompt, imageUrl) ==
  LET put == CachePut(cache, getPromptCacheKey(prompt), imageUrl)
      keys == ObjectKeys(put)
  IN IF Len(keys) > MaxCache THEN CacheDelete(put, keys[1]) ELSE put

CacheGet(cache, key) ==
  IF HasKey(cache, key)
  THEN Str((CHOOSE e \in {cache[i] : i \in 1..Len(cache)} : e.key = key).url)
  ELSE Null

getCachedImageRawKey(cache, prompt) ==
  LET v == CacheGet(cache, prompt) IN IF Truthy(v) THEN v ELSE Null

getCachedImage(cache, prompt) ==
  LET v == CacheGet(cache, getPromptCacheKey(prompt))
  IN IF Truthy(v) THEN v ELSE Null

\* ----------------------------------------------------------------- history
\* addToHistory with push in place of unshift
addToHistoryAtEnd(history, imageUrl, prompt) ==
  LET h == history \o <<[url |-> imageUrl, prompt |-> prompt]>>
  IN IF Len(h) > MaxHistory THEN SubSeq(h, 1, MaxHistory) ELSE h

\* the new history array of addToHistory (the time stamp is left out)
addToHistory(history, imageUrl, prompt) ==
  LET h == <<[url |-> imageUrl, prompt |-> prompt]>> \o history
  IN IF Len(h) > MaxHistory THEN SubSeq(h, 1, MaxHistory) ELSE h

\* ------------------------------------------------------------- request url
\* /\/v1(?:\/.*)?$/i : the leftmost "/v1" that ends the string or precedes "/"
V1At(url, i) ==
  /\ i + 2 <= Len(url)
  /\ url[i] = "/" /\ url[i + 1] \in {"v", "V"} /\ url[i + 2] = "1"
  /\ (i + 2 = Len(url) \/ url[i + 3] = "/")

RECURSIVE StripTrailingSlashes(_)
StripTrailingSlashes(s) ==
  IF s # <<>> /\ s[Len(s)] = "/"
  THEN StripTrailingSlashes(SubSeq(s, 1, Len(s) - 1)) ELSE s

normalizeApiUrl(rawUrl) ==
  LET url == StripTrailingSlashes(Trim(rawUrl))
  IN IF \E i \in 1..Len(url) : V1At(url, i)
     THEN SubSeq(url, 1, (CHOOSE i \in 1..Len(url) :
                            V1At(url, i) /\ \A j \in 1..(i - 1) : ~V1At(url, j)) - 1)
     ELSE url

\* ------------------------------------------------------------ the request
\* buildMessages: the content of the single user message
buildMessages(prompt, images) ==
  LET text == IF prompt # <<>> THEN <<[type |-> "text", val |-> prompt]>> ELSE <<>>
      content == text \o [i \in 1..Len(images) |-> [type |-> "image_url", val |-> images[i]]]
  IN IF Len(content) = 1 /\ content[1].type = "text"
     THEN [role |-> "user", bare |-> TRUE, text |-> prompt, parts |-> <<>>]
     ELSE [role |-> "user", bare |-> FALSE, text |-> <<>>, parts |-> content]

\* finalPrompt: the prompt with the configured prefix
FinalPrompt(promptPrefix, prompt) ==
  IF Trim(promptPrefix) # <<>> THEN promptPrefix \o <<",", SP>> \o prompt ELSE prompt

\* =================================================================== state
Direct == {"q1", "q2"}          \* invocations of a plain generate handler
Markers == {"m1", "m2", "m3"}   \* marker occurrences in the chat
Callers == Direct \cup Markers
MsgOf(m) == IF m = "m3" THEN 2 ELSE 1   \* the message a marker occurs in
AddSlots == {"a1", "a2"}        \* addReferenceImage invocations
Files == {"f1", "f2"}           \* image files the user can add
ArrIds == 1..(Cardinality(Callers) + Cardinality(AddSlots) + 2)

VARIABLES
  isGenerating,   \* the module-level busy flag
  settings,       \* extension_settings[extensionName]
  heap,           \* the array objects that hold reference images, by identity
  adds,           \* the addReferenceImage invocations awaiting fileToBase64
  calls,          \* the generateImage invocations, one per caller
  dom,            \* the rendering of each marker occurrence
  posts,          \* POST requests issued so far
  out             \* what the latest step returned and reported to the user

vars == <<isGenerating, settings, heap, adds, calls, dom, posts, out>>

IdleCall ==
  [pc |-> "idle", prompt |-> <<>>, images |-> 1, sent |-> <<>>,
   sentImages |-> <<>>, sentStream |-> FALSE,
   body |-> <<>>, pos |-> 0, lineBuffer |-> <<>>, content |-> <<>>,
   attached |-> TRUE]
IdleAdd == [pc |-> "idle", images |-> 1, file |-> "f1"]
AbsentNode ==
  [st |-> "absent", body |-> <<>>, prompt |-> <<>>, label |-> "none",
   img |-> <<>>, handlers |-> 0]
NoMsg == [kind |-> "none", status |-> 0, text |-> <<>>]
NoOut ==
  [who |-> "none", outcome |-> "none", ret |-> Null, msg |-> NoMsg,
   notice |-> "none", status |-> 0, body |-> <<>>, acc |-> <<>>,
   image |-> Null]

\* defaultSettings, as loadSettings leaves them on a fresh install
DefaultApiUrl == <<"H", "h">>
defaultSettings ==
  [apiUrl |-> DefaultApiUrl, apiKey |-> <<>>, stream |-> TRUE,
   promptPrefix |-> <<>>, referenceImages |-> 1, generatedHistory |-> <<>>,
   fixReferenceImages |-> FALSE, enableInline |-> TRUE,
   promptImageCache |-> <<>>]

\* the settings once the user has entered an access token
ConfiguredSettings == [defaultSettings EXCEPT !.apiKey = <<"k">>]

Init ==
  /\ isGenerating = FALSE
  /\ settings = defaultSettings
  /\ heap = [a \in ArrIds |-> <<>>]
  /\ adds = [a \in AddSlots |-> IdleAdd]
  /\ calls = [c \in Callers |-> IdleCall]
  /\ dom = [m \in Markers |-> AbsentNode]
  /\ posts = 0
  /\ out = NoOut

\* ------------------------------------------------------------ array objects
\* the array ids some variable still refers to
Referenced(st, ad, cl) ==
  {st.referenceImages}
    \cup {ad[a].images : a \in {x \in AddSlots : ad[x].pc # "idle"}}
    \cup {cl[c].images : c \in {x \in Callers : cl[x].pc # "idle"}}

\* an array object nobody refers to is gone
Collect(h, st, ad, cl) ==
  [a \in ArrIds |-> IF a \in Referenced(st, ad, cl) THEN h[a] ELSE <<>>]

\* the identity of a newly created array
FreshArr(ad, cl) ==
  CHOOSE a \in ArrIds :
    /\ a \notin Referenced([referenceImages |-> 0], ad, cl)
    /\ \A b \in ArrIds :
         b \notin Referenced([referenceImages |-> 0], ad, cl) => a <= b

referenceImages == heap[settings.referenceImages]

\* ------------------------------------------------------ inline marker scan
Messages == {MsgOf(m) : m \in Markers}
hasPlaceholder(d, g) == \E m \in Markers : MsgOf(m) = g /\ d[m].st = "raw"
hasInline(d, g) == \E m \in Markers : MsgOf(m) = g /\ d[m].st \in {"trigger", "result"}
ChatPresent(d) == \E m \in Markers : d[m].st # "absent"
\* the scan without the `if (!isEnabled) return` of line 1060
ScanActiveIgnoringSetting(d, st) == ChatPresent(d)

ScanActive(d, st) == st.enableInline /\ ChatPresent(d)

\* the messages whose HTML the scan writes anew
Rewritten(d, st) ==
  IF ScanActive(d, st) THEN {g \in Messages : hasPlaceholder(d, g)} ELSE {}

\* the img-router-inline-result block; body stays the marker text that the
\* message source (context.chat) holds for this occurrence
ResultNode(node, url) ==
  [AbsentNode EXCEPT !.st = "result", !.img = url, !.body = node.body]

\* the replacement of one marker text: the cached image or a trigger
Substitute(node, cache) ==
  LET cached == getCachedImage(cache, cleanPrompt(node.body))
  IN IF Truthy(cached)
     THEN ResultNode(node, cached.val)
     ELSE [node EXCEPT !.st = "trigger", !.label = "gen",
                       !.prompt = TriggerPrompt(node.body)]

\* .on('click', ...) alone would add a handler to those already bound
bindInlineEventsNoOff(handlers) == handlers + 1

\* .off('click').on('click', ...) on a trigger: the number of handlers after
bindInlineEvents(handlers) == 1

\* processChatMessages: the rendering after one scan
processChatMessages(d, st) ==
  [m \in Markers |->
     IF ~ScanActive(d, st) THEN d[m]
     ELSE IF MsgOf(m) \in Rewritten(d, st)
       THEN IF d[m].st = "raw"
              THEN LET n == Substitute(d[m], st.promptImageCache)
                   IN IF n.st = "trigger"
                      THEN [n EXCEPT !.handlers = bindInlineEvents(0)] ELSE n
            ELSE IF d[m].st = "trigger"
              THEN [d[m] EXCEPT !.handlers = bindInlineEvents(0)]
            ELSE IF d[m].st = "loading" THEN [d[m] EXCEPT !.handlers = 0]
            ELSE d[m]
     ELSE IF hasInline(d, MsgOf(m)) /\ d[m].st = "trigger"
       THEN [d[m] EXCEPT !.handlers = bindInlineEvents(d[m].handlers)]
     ELSE d[m]]

\* a pending click handler loses its element when the message is rewritten
DetachCalls(cl, d, st) ==
  [c \in Callers |->
     IF c \in Markers /\ cl[c].pc # "idle" /\ MsgOf(c) \in Rewritten(d, st)
     THEN [cl[c] EXCEPT !.attached = FALSE] ELSE cl[c]]

\* ------------------------------------------------- generateImage, first part
Msg(kind) == [kind |-> kind, status |-> 0, text |-> <<>>]

\* the checks before the request: "busy", "config" or "go"
GenDecisionNoBusyCheck(st, busy) ==
  IF normalizeApiUrl(st.apiUrl) = <<>> \/ st.apiKey = <<>> THEN "config" ELSE "go"

GenDecision(st, busy) ==
  IF busy THEN "busy"
  ELSE IF normalizeApiUrl(st.apiUrl) = <<>> \/ st.apiKey = <<>> THEN "config"
  ELSE "go"

\* the invocation once the request is under way
StartCall(prompt) ==
  [IdleCall EXCEPT
     !.pc = "fetch", !.prompt = prompt,
     !.images = settings.referenceImages,
     !.sent = buildMessages(FinalPrompt(settings.promptPrefix, prompt), referenceImages),
     !.sentImages = referenceImages,
     !.sentStream = settings.stream]

\* the click handler after `await generateImage(prompt)`, taking the returned
\* content itself for the image
InlineAfterNoExtract(m, prompt, attached, retv, st, d) ==
  LET imageUrl == IF Truthy(retv) THEN retv ELSE Null
      failed == IF attached
                THEN [d EXCEPT ![m] = [@ EXCEPT !.st = "trigger", !.label = "retry"]]
                ELSE d
  IN IF Truthy(imageUrl)
     THEN [settings |-> [st EXCEPT
                           !.generatedHistory = addToHistory(@, imageUrl.val, prompt),
                           !.promptImageCache = cachePromptImage(@, prompt, imageUrl.val)],
           dom |-> IF attached
                   THEN [d EXCEPT ![m] = ResultNode(d[m], imageUrl.val)]
                   ELSE d,
           notice |-> "success", image |-> imageUrl]
     ELSE [settings |-> st, dom |-> failed,
           notice |-> IF Truthy(retv) THEN "noImage" ELSE "empty",
           image |-> imageUrl]

\* the click handler after `await generateImage(prompt)`
InlineAfter(m, prompt, attached, retv, st, d) ==
  LET imageUrl == IF Truthy(retv) THEN extractImageFromContent(retv.val) ELSE Null
      failed == IF attached
                THEN [d EXCEPT ![m] = [@ EXCEPT !.st = "trigger", !.label = "retry"]]
                ELSE d
  IN IF Truthy(imageUrl)
     THEN [settings |-> [st EXCEPT
                           !.generatedHistory = addToHistory(@, imageUrl.val, prompt),
                           !.promptImageCache = cachePromptImage(@, prompt, imageUrl.val)],
           dom |-> IF attached
                   THEN [d EXCEPT ![m] = ResultNode(d[m], imageUrl.val)]
                   ELSE d,
           notice |-> "success", image |-> imageUrl]
     ELSE [settings |-> st, dom |-> failed,
           notice |-> IF Truthy(retv) THEN "noImage" ELSE "empty",
           image |-> imageUrl]

\* a call that returns before the request, had the flag been taken before
\* the checks
RejectedHoldingFlag(c, prompt, dec, d) ==
  LET r == InlineAfter(c, prompt, TRUE, Null, settings, d)
  IN /\ dom' = IF c \in Markers THEN processChatMessages(r.dom, settings) ELSE d
     /\ out' = [NoOut EXCEPT !.who = c, !.outcome = dec, !.msg = Msg(dec),
                             !.notice = IF c \in Markers THEN r.notice ELSE "none"]
     /\ isGenerating' = TRUE
     /\ UNCHANGED <<settings, heap, adds, calls, posts>>

\* a call that returns before the request: nothing but the report changes,
\* and an inline caller goes on with the null it got
Rejected(c, prompt, dec, d) ==
  LET r == InlineAfter(c, prompt, TRUE, Null, settings, d)
  IN /\ dom' = IF c \in Markers THEN processChatMessages(r.dom, settings) ELSE d
     /\ out' = [NoOut EXCEPT !.who = c, !.outcome = dec, !.msg = Msg(dec),
                             !.notice = IF c \in Markers THEN r.notice ELSE "none"]
     /\ UNCHANGED <<isGenerating, settings, heap, adds, calls, posts>>

\* `finally { isGenerating = false }`: the flag after a call that ended as
\* outcome
FlagAfterTryOnly(outcome) == outcome # "ok"
FlagAfter(outcome) == FALSE

\* `catch (error) { ...; return null }`
CatchReturnMessage(msg) == Str(msg.text)
CatchReturn(msg) == Null

\* the end of a call that went through try / catch / finally, with the
\* continuation of its caller
Complete(c, retv, outcome, msg, status, body, acc, clear) ==
  LET cl == [calls EXCEPT ![c] = IdleCall]
      st1 == IF clear
             THEN [settings EXCEPT !.referenceImages = FreshArr(adds, cl)]
             ELSE settings
      r == IF c \in Markers
           THEN InlineAfter(c, calls[c].prompt, calls[c].attached, retv, st1, dom)
           ELSE [settings |-> st1, dom |-> dom, notice |-> "none", image |-> Null]
  IN /\ isGenerating' = FlagAfter(outcome)
     /\ calls' = cl
     /\ settings' = r.settings
     /\ dom' = IF c \in Markers /\ calls[c].attached
               THEN processChatMessages(r.dom, r.settings) ELSE r.dom
     /\ heap' = Collect(IF clear THEN [heap EXCEPT ![FreshArr(adds, cl)] = <<>>]
                                 ELSE heap,
                        r.settings, adds, cl)
     /\ out' = [who |-> c, outcome |-> outcome, ret |-> retv, msg |-> msg,
                notice |-> r.notice, status |-> status, body |-> body, acc |-> acc,
                image |-> r.image]
     /\ UNCHANGED <<adds, posts>>

\* lines 972-980: the clean-up of the reference images, then `return content`
SuccessTail(c, content, body, acc) ==
  Complete(c, Str(content), "ok", NoMsg, 200, body, acc,
           content # <<>> /\ Len(heap[calls[c].images]) > 0
             /\ ~settings.fixReferenceImages)

\* lines 981-987: an Error reached the catch block
Caught(c, outcome, msg, status, body, acc) ==
  Complete(c, CatchReturn(msg), outcome, msg, status, body, acc, FALSE)

\* ------------------------------------------------------------- trigger surfaces
Prompts == {<<"a">>, <<>>}

\* a generate button: `const content = await generateImage(prompt)`
QuickGenerate(q, prompt) ==
  /\ calls[q].pc = "idle"
  /\ LET dec == GenDecision(settings, isGenerating)
     IN IF dec = "go"
        THEN /\ posts < MaxPosts
             /\ isGenerating' = TRUE
             /\ calls' = [calls EXCEPT ![q] = StartCall(prompt)]
             /\ posts' = posts + 1
             /\ UNCHANGED <<settings, heap, adds, dom>> /\ out' = NoOut
        ELSE Rejected(q, prompt, dec, dom)

\* the click handler of bindInlineEvents, up to `await generateImage(prompt)`
ClickBusyCheckMissing(busy) == FALSE
ClickBusyCheck(busy) == busy

Click(m) ==
  /\ dom[m].st \in {"trigger", "loading"}
  /\ dom[m].handlers > 0
  /\ IF ClickBusyCheck(isGenerating)
     THEN /\ out' = [NoOut EXCEPT !.who = m, !.notice = "busyClick"]
          /\ UNCHANGED <<isGenerating, settings, heap, adds, calls, dom, posts>>
     ELSE LET loading == processChatMessages(
                           [dom EXCEPT ![m] = [@ EXCEPT !.st = "loading"]], settings)
              dec == GenDecision(settings, isGenerating)
          IN /\ calls[m].pc = "idle"
             /\ IF dec = "go"
                THEN /\ posts < MaxPosts
                     /\ isGenerating' = TRUE
                     /\ calls' = [calls EXCEPT ![m] = StartCall(dom[m].prompt)]
                     /\ posts' = posts + 1
                     /\ dom' = loading
                     /\ out' = [NoOut EXCEPT !.who = m, !.notice = "start"]
                     /\ UNCHANGED <<settings, heap, adds>>
                ELSE Rejected(m, dom[m].prompt, dec, loading)

\* ------------------------------------------------------------- the response
ErrStatuses == {429, 500}
ErrBodies == {<<"^", "a", "^">>, <<"^", "^">>, <<"<", "a", ">">>, <<"B", "a", "d">>}
ObjectObject == <<"[object Object]">>

\* lines 881-889: the Error thrown for a non-2xx response.  response.json()
\* reads the body; when it rejects, response.text() finds the body already
\* read and rejects with a TypeError, which is what reaches the outer catch.
ErrorMessage(status, body) ==
  LET data == JSONParse(body)
      bodyUsed == TRUE
  IN IF data.ok
     THEN [kind |-> "api", status |-> status,
           text |-> IF data.shape = "error"
                    THEN IF data.s # <<>> THEN data.s ELSE ObjectObject
                    ELSE JSONStringify(body)]
     ELSE IF bodyUsed THEN Msg("bodyUsed")
     ELSE [kind |-> "api", status |-> status, text |-> body]

\* fetch rejects: no connection
FetchReject(c) ==
  /\ calls[c].pc = "fetch"
  /\ Caught(c, "network", Msg("network"), 0, <<>>, <<>>)

\* fetch resolves with a non-2xx status
FetchError(c, status, body) ==
  /\ calls[c].pc = "fetch"
  /\ Caught(c, "status", ErrorMessage(status, body), status, body, <<>>)

\* fetch resolves 2xx and settings.stream is set: the read loop starts
FetchOkStream(c, body) ==
  /\ calls[c].pc = "fetch"
  /\ settings.stream
  /\ calls' = [calls EXCEPT ![c] = [@ EXCEPT !.pc = "reading", !.body = body]]
  /\ UNCHANGED <<isGenerating, settings, heap, adds, dom, posts>> /\ out' = NoOut

\* fetch resolves 2xx and settings.stream is off: response.json()
FetchOkJson(c, body) ==
  /\ calls[c].pc = "fetch"
  /\ ~settings.stream
  /\ LET data == JSONParse(body)
     IN IF ~data.ok
        THEN Caught(c, "parse", Msg("syntax"), 200, body, <<>>)
        ELSE SuccessTail(c, IF data.shape \in {"message", "b64"} THEN data.s ELSE <<>>,
                         body, <<>>)

rawBuffer(c) == SubSeq(calls[c].body, 1, calls[c].pos)

\* one reader.read() that delivers the next k characters
ReadChunk(c, k) ==
  /\ calls[c].pc = "reading"
  /\ k >= 1
  /\ calls[c].pos + k <= Len(calls[c].body)
  /\ LET chunk == SubSeq(calls[c].body, calls[c].pos + 1, calls[c].pos + k)
         r == DrainLines(calls[c].lineBuffer \o chunk, calls[c].content)
     IN calls' = [calls EXCEPT ![c] = [@ EXCEPT !.pos = @ + k,
                                                !.lineBuffer = r.lineBuffer,
                                                !.content = r.content]]
  /\ UNCHANGED <<isGenerating, settings, heap, adds, dom, posts>> /\ out' = NoOut

\* reader.read() reports done: lines 928-980
ReadDone(c) ==
  /\ calls[c].pc = "reading"
  /\ calls[c].pos = Len(calls[c].body)
  /\ LET acc == FlushRemaining(calls[c].lineBuffer, calls[c].content)
         fb == StreamFallback(acc, rawBuffer(c))
     IN IF fb.err.isNull
        THEN SuccessTail(c, fb.content, calls[c].body, acc)
        ELSE Caught(c, "upstream",
                    [kind |-> "upstream", status |-> 0, text |-> fb.err.val],
                    200, calls[c].body, acc)

\* reader.read() rejects: the connection broke
ReadFail(c) ==
  /\ calls[c].pc = "reading"
  /\ Caught(c, "network", Msg("network"), 200, calls[c].body, calls[c].content)

\* ---------------------------------------------------------- reference images
\* addReferenceImage up to `await fileToBase64(file)`
AddStart(a, f) ==
  /\ adds[a].pc = "idle"
  /\ IF Len(referenceImages) >= MaxRefImages
     THEN /\ out' = [NoOut EXCEPT !.who = a, !.notice = "maxImages"]
          /\ UNCHANGED <<isGenerating, settings, heap, adds, calls, dom, posts>>
     ELSE /\ adds' = [adds EXCEPT ![a] = [pc |-> "reading",
                                          images |-> settings.referenceImages,
                                          file |-> f]]
          /\ UNCHANGED <<isGenerating, settings, heap, calls, dom, posts>> /\ out' = NoOut

\* the file is read: images.push(base64); saveSetting('referenceImages', images)
AddLoaded(a) ==
  /\ adds[a].pc = "reading"
  /\ adds' = [adds EXCEPT ![a] = IdleAdd]
  /\ settings' = [settings EXCEPT !.referenceImages = adds[a].images]
  /\ heap' = Collect([heap EXCEPT ![adds[a].images] = Append(@, adds[a].file)],
                     settings', adds', calls)
  /\ out' = [NoOut EXCEPT !.who = a, !.notice = "imageAdded"]
  /\ UNCHANGED <<isGenerating, calls, dom, posts>>

\* the FileReader fails
AddFailed(a) ==
  /\ adds[a].pc = "reading"
  /\ adds' = [adds EXCEPT ![a] = IdleAdd]
  /\ heap' = Collect(heap, settings, adds', calls)
  /\ out' = [NoOut EXCEPT !.who = a, !.notice = "readFailed"]
  /\ UNCHANGED <<isGenerating, settings, calls, dom, posts>>

RemoveAt(s, i) == SubSeq(s, 1, i - 1) \o SubSeq(s, i + 1, Len(s))

\* removeReferenceImage(index): splice in place (i counts from 1 here)
removeReferenceImage(i) ==
  /\ i \in 1..Len(referenceImages)
  /\ heap' = [heap EXCEPT ![settings.referenceImages] = RemoveAt(@, i)]
  /\ UNCHANGED <<isGenerating, settings, adds, calls, dom, posts>> /\ out' = NoOut

\* clearAllImages from its button: a new empty array
clearAllImages ==
  /\ settings' = [settings EXCEPT !.referenceImages = FreshArr(adds, calls)]
  /\ heap' = Collect([heap EXCEPT ![FreshArr(adds, calls)] = <<>>],
                     settings', adds, calls)
  /\ UNCHANGED <<isGenerating, adds, calls, dom, posts>> /\ out' = NoOut

\* ----------------------------------------------------------------- settings
ApiUrls == {DefaultApiUrl, <<"/", "v", "1">>}
ApiKeys == {<<>>, <<"k">>}
Prefixes == {<<>>, <<"p">>}

SetApiUrl(u) ==
  /\ settings' = [settings EXCEPT !.apiUrl = Trim(u)]
  /\ UNCHANGED <<isGenerating, heap, adds, calls, dom, posts>> /\ out' = NoOut

SetApiKey(k) ==
  /\ settings' = [settings EXCEPT !.apiKey = Trim(k)]
  /\ UNCHANGED <<isGenerating, heap, adds, calls, dom, posts>> /\ out' = NoOut

SetStream(v) ==
  /\ settings' = [settings EXCEPT !.stream = v]
  /\ UNCHANGED <<isGenerating, heap, adds, calls, dom, posts>> /\ out' = NoOut

SetPromptPrefix(v) ==
  /\ settings' = [settings EXCEPT !.promptPrefix = v]
  /\ UNCHANGED <<isGenerating, heap, adds, calls, dom, posts>> /\ out' = NoOut

SetFixReferenceImages(v) ==
  /\ settings' = [settings EXCEPT !.fixReferenceImages = v]
  /\ UNCHANGED <<isGenerating, heap, adds, calls, dom, posts>> /\ out' = NoOut

\* saveSetting('enableInline', v) ends with a scan
SetEnableInline(v) ==
  /\ settings' = [settings EXCEPT !.enableInline = v]
  /\ dom' = processChatMessages(dom, settings')
  /\ calls' = DetachCalls(calls, dom, settings')
  /\ UNCHANGED <<isGenerating, heap, adds, posts>> /\ out' = NoOut

\* --------------------------------------------------------------- the chat
MarkerBodies == {<<"a", BR, "b">>, <<"a", SP, "b">>, <<"c">>}

\* the host puts the text image###body### into a message; the observer of
\* startChatObserver answers the added nodes with a scan
MarkerArrive(m, body) ==
  /\ dom[m].st = "absent"
  /\ LET d == [dom EXCEPT ![m] = [AbsentNode EXCEPT !.st = "raw", !.body = body]]
     IN /\ dom' = processChatMessages(d, settings)
        /\ calls' = DetachCalls(calls, d, settings)
  /\ UNCHANGED <<isGenerating, settings, heap, adds, posts>> /\ out' = NoOut

\* a scan from a timer (MESSAGE_RECEIVED, CHAT_CHANGED, start-up)
Scan ==
  /\ dom' = processChatMessages(dom, settings)
  /\ calls' = DetachCalls(calls, dom, settings)
  /\ UNCHANGED <<isGenerating, settings, heap, adds, posts>> /\ out' = NoOut

\* ------------------------------------------------------------ specification
OkBodies ==
  { <<"d", "a", "t", "a", ":", " ", "{", "!", "[", "]", "(", "u", ")", "}", "\n">>,
    <<"d", "a", "t", "a", ":", " ", "{", "a", "}", "\n">>,
    <<"<", "!", "[", "]", "(", "a", ")", ">">>,
    <<"<", ">">>,
    <<"^", "a", "^">>,
    <<"B", "a", "d">> }

Next ==
  \/ \E q \in Direct, p \in Prompts : QuickGenerate(q, p)
  \/ \E m \in Markers : Click(m)
  \/ \E c \in Callers : FetchReject(c)
  \/ \E c \in Callers, st \in ErrStatuses, b \in ErrBodies : FetchError(c, st, b)
  \/ \E c \in Callers, b \in OkBodies : FetchOkStream(c, b)
  \/ \E c \in Callers, b \in OkBodies : FetchOkJson(c, b)
  \/ \E c \in Callers, k \in 1..MaxChunk : ReadChunk(c, k)
  \/ \E c \in Callers : ReadDone(c)
  \/ \E c \in Callers : ReadFail(c)
  \/ \E a \in AddSlots, f \in Files : AddStart(a, f)
  \/ \E a \in AddSlots : AddLoaded(a)
  \/ \E a \in AddSlots : AddFailed(a)
  \/ \E i \in 1..(MaxRefImages + Cardinality(AddSlots)) : removeReferenceImage(i)
  \/ clearAllImages
  \/ \E u \in ApiUrls : SetApiUrl(u)
  \/ \E k \in ApiKeys : SetApiKey(k)
  \/ \E v \in BOOLEAN : SetStream(v)
  \/ \E v \in Prefixes : SetPromptPrefix(v)
  \/ \E v \in BOOLEAN : SetFixReferenceImages(v)
  \/ \E v \in BOOLEAN : SetEnableInline(v)
  \/ \E m \in Markers, b \in MarkerBodies : MarkerArrive(m, b)
  \/ Scan

Spec == Init /\ [][Next]_vars

\* ---------------------------------------------- the generation client alone
\* The busy flag, the configuration check and every way a request can end,
\* with two plain generate handlers and one inline trigger as callers.
Response(c) ==
  \/ FetchReject(c)
  \/ \E st \in ErrStatuses, b \in ErrBodies : FetchError(c, st, b)
  \/ \E b \in OkBodies : FetchOkStream(c, b)
  \/ \E b \in OkBodies : FetchOkJson(c, b)
  \/ \E k \in 1..MaxChunk : ReadChunk(c, k)
  \/ ReadDone(c)
  \/ ReadFail(c)

NextGate ==
  \/ \E q \in Direct, p \in Prompts : QuickGenerate(q, p)
  \/ MarkerArrive("m1", <<"c">>)
  \/ Click("m1")
  \/ \E c \in Callers : Response(c)
  \/ \E k \in ApiKeys : SetApiKey(k)
  \/ \E v \in BOOLEAN : SetStream(v)

SpecGate == Init /\ [][NextGate]_vars

\* ------------------------------------- the reference images and generation
\* The list of reference images under uploads, removals and clears while a
\* streamed generation (plain or inline) is under way.  The API is configured.
ImageBody == <<"d", "a", "t", "a", ":", " ", "{", "!", "[", "]", "(", "u", ")", "}", "\n">>
TextBody == <<"d", "a", "t", "a", ":", " ", "{", "a", "}", "\n">>
RefBodies == {ImageBody, TextBody}

InitRef ==
  /\ isGenerating = FALSE
  /\ settings = ConfiguredSettings
  /\ heap = [a \in ArrIds |-> <<>>]
  /\ adds = [a \in AddSlots |-> IdleAdd]
  /\ calls = [c \in Callers |-> IdleCall]
  /\ dom = [m \in Markers |-> AbsentNode]
  /\ posts = 0
  /\ out = NoOut

NextRef ==
  \/ AddStart("a1", "f1")
  \/ AddLoaded("a1")
  \/ removeReferenceImage(1)
  \/ clearAllImages
  \/ \E v \in BOOLEAN : SetFixReferenceImages(v)
  \/ QuickGenerate("q1", <<"a">>)
  \/ \E c \in Callers : FetchReject(c)
  \/ \E c \in Callers, b \in RefBodies : FetchOkStream(c, b)
  \/ \E c \in Callers : ReadChunk(c, Len(calls[c].body) - calls[c].pos)
  \/ \E c \in Callers : ReadDone(c)

SpecRef == InitRef /\ [][NextRef]_vars

\* ============================================ the stream decoder on its own
\* The lines a response body is made of: well-formed frames, a frame cut
\* short, the terminator, a comment, an empty line, padding and CR, and a

\* ------------------------------------------------------ the configuration
\* The two inputs of the settings panel that generateImage checks, and calls
\* from a button and from a marker; a request that was sent fails.
ConfigUrls == ApiUrls \cup {<<SP>>, <<"H", "h", "/", "V", "1", "/", "x">>, <<"/", "/">>}

NextConfig ==
  \/ \E u \in ConfigUrls : SetApiUrl(u)
  \/ \E k \in ApiKeys : SetApiKey(k)
  \/ \E q \in Direct, p \in Prompts : QuickGenerate(q, p)
  \/ MarkerArrive("m1", <<"c">>)
  \/ Click("m1")
  \/ \E c \in Callers : FetchReject(c)

SpecConfig == Init /\ [][NextConfig]_vars

\* ------------------------------------------------- the prompt cache alone
\* Calls of cachePromptImage, as the click handler makes them after a
\* success: for a prompt not seen before (ever longer runs of "a"), for the
\* prompt "1", whose key is an integer-like property name, and again for the
\* prompt cached longest ago.
RunOfA(n) == [i \in 1..n |-> "a"]
LongestRun(cache) ==
  LET runs == {Len(cache[i].key) : i \in {j \in 1..Len(cache) : ~IsArrayIndex(cache[j].key)}}
  IN IF runs = {} THEN 0 ELSE CHOOSE n \in runs : \A k \in runs : k <= n
NumberPrompt == <<"1">>

CacheImage(prompt, imageUrl) ==
  /\ settings' = [settings EXCEPT
                    !.promptImageCache = cachePromptImage(@, prompt, imageUrl)]
  /\ UNCHANGED <<isGenerating, heap, adds, calls, dom, posts>> /\ out' = NoOut

NextCache ==
  \/ /\ LongestRun(settings.promptImageCache) < MaxPrompts
     /\ CacheImage(RunOfA(LongestRun(settings.promptImageCache) + 1), <<"u">>)
  \/ CacheImage(NumberPrompt, <<"a">>)
  \/ /\ settings.promptImageCache # <<>>
     /\ CacheImage(settings.promptImageCache[1].key, <<"b">>)

SpecCache == InitRef /\ [][NextCache]_vars

\* ----------------------------------------------------- the history alone
\* Calls of addToHistory, each for a prompt longer than those in the list (so
\* that the prompt tells the age of an entry), and clicks on the trash icon of
\* the newest and of the oldest entry of the gallery.
LongestPrompt(history) ==
  LET lens == {Len(history[i].prompt) : i \in 1..Len(history)}
  IN IF lens = {} THEN 0 ELSE CHOOSE n \in lens : \A k \in lens : k <= n

HistoryAdd(imageUrl, prompt) ==
  /\ settings' = [settings EXCEPT
                    !.generatedHistory = addToHistory(@, imageUrl, prompt)]
  /\ UNCHANGED <<isGenerating, heap, adds, calls, dom, posts>> /\ out' = NoOut

\* the trash icon with data-index idx: currentHistory.splice(idx, 1)
HistoryDelete(idx) ==
  /\ idx \in 0..(Len(settings.generatedHistory) - 1)
  /\ settings' = [settings EXCEPT !.generatedHistory = RemoveAt(@, idx + 1)]
  /\ UNCHANGED <<isGenerating, heap, adds, calls, dom, posts>> /\ out' = NoOut

NextHistory ==
  \/ /\ LongestPrompt(settings.generatedHistory) < MaxPrompts
     /\ HistoryAdd(<<"u">>, RunOfA(LongestPrompt(settings.generatedHistory) + 1))
  \/ HistoryDelete(0)
  \/ HistoryDelete(Len(settings.generatedHistory) - 1)

SpecHistory == InitRef /\ [][NextHistory]_vars

\* ------------------------------------------------- the extraction alone
\* The click handler of m1 at the point where generateImage has returned a
\* content string: what is left is the extraction and the rendering.
Alts == {<<>>, <<"a">>, <<"a", "]", "b">>}
Urls == {<<"u">>, <<"H", "u", "P">>, <<"u", "(", "a", ")">>, <<>>}
Prose ==
  { <<>>, <<"a", SP>>, <<SP, "H", "b", "P", SP>>, <<"!", "[", "b", "]", NL>>,
    <<"(", "a", ")">>, <<"!", "[", "b", "]", "(", "a", SP>>, <<SP, "D", "a", "b">> }
MdImage(alt, url) == <<"!", "[">> \o alt \o <<"]", "(">> \o url \o <<")">>
MdContents ==
  {pre \o MdImage(alt, url) \o post :
     pre \in Prose, post \in Prose, alt \in Alts, url \in Urls}

\* a run of n characters of the base64 alphabet
Base64Run(n) == [i \in 1..n |-> IF i % 3 = 0 THEN "+" ELSE IF i % 3 = 1 THEN "a" ELSE "/"]
Base64Lens == {1, 2} \cup ((MinBase64Len - 2)..(MinBase64Len + 2))
Base64Contents ==
  {Base64Run(n) : n \in Base64Lens}
    \cup {<<SP>> \o Base64Run(n) \o <<NL>> : n \in Base64Lens}
    \cup {<<"a", "b", NL>> \o Base64Run(n - 2) : n \in Base64Lens \ {1, 2}}

\* content without a markdown image
OtherContents ==
  { <<>>, <<SP>>, <<"a", "b">>,
    <<"a", SP, "H", "u", "P", "b">>, <<"H", "u", "P", "a", "P", SP, "H", "P">>,
    <<DQ, "H", "u", "P", DQ>>, <<"H", DQ, "u", "P">>,
    <<"a", SP, "D", "a", "b", DQ, "b">>, <<"D", "a", SP, "H", "u", "P">>,
    <<"D", "H", "u", "P">>, <<"D">>, <<"D", SP>>,
    <<SP, "H", "u", "(", SQ, "a", SQ, ")", NL>>, <<"H", "u">>, <<"a", "H", "u">>,
    <<"H", "P">>, <<"!", "[", "a", "]", NL, "(", "u", ")">>,
    <<"!", "[", "a", "]", "(", "u">>, <<"[", "a", "]", "(", "u", ")">> }

ExtractContents == MdContents \cup Base64Contents \cup OtherContents

InitExtract ==
  /\ isGenerating = FALSE
  /\ settings = ConfiguredSettings
  /\ heap = [a \in ArrIds |-> <<>>]
  /\ adds = [a \in AddSlots |-> IdleAdd]
  /\ \E content \in ExtractContents :
       calls = [c \in Callers |->
                  IF c = "m1"
                  THEN [IdleCall EXCEPT !.pc = "returned", !.prompt = <<"c">>,
                                        !.content = content]
                  ELSE IdleCall]
  /\ dom = [m \in Markers |->
              IF m = "m1"
              THEN [AbsentNode EXCEPT !.st = "loading", !.body = <<"c">>,
                                      !.prompt = <<"c">>, !.label = "gen",
                                      !.handlers = 1]
              ELSE AbsentNode]
  /\ posts = 1
  /\ out = NoOut

\* the click handler goes on with the content that generateImage returned
HandlerResume(m) ==
  /\ calls[m].pc = "returned"
  /\ LET retv == Str(calls[m].content)
         r == InlineAfter(m, calls[m].prompt, calls[m].attached, retv, settings, dom)
     IN /\ calls' = [calls EXCEPT ![m] = IdleCall]
        /\ settings' = r.settings
        /\ dom' = IF calls[m].attached
                  THEN processChatMessages(r.dom, r.settings) ELSE r.dom
        /\ out' = [NoOut EXCEPT !.who = m, !.outcome = "ok", !.ret = retv,
                                !.notice = r.notice, !.image = r.image]
  /\ UNCHANGED <<isGenerating, heap, adds, posts>>

NextExtract == \E m \in Markers : HandlerResume(m)

SpecExtract == InitExtract /\ [][NextExtract]_vars

\* ------------------------------------------------- the inline markers alone
\* Three marker occurrences in two messages, two of the bodies with the same
\* cache key; streamed responses that carry one of two images or plain text.
\* The API is configured.
OtherImageBody == <<"d", "a", "t", "a", ":", " ", "{", "!", "[", "]", "(", "a", ")", "}", "\n">>
InlineBodies == {ImageBody, OtherImageBody, TextBody}
SameKeyBodies == {<<"a", BR, "b">>, <<"a", SP, "b">>}

NextInline ==
  \/ \E m \in Markers, b \in SameKeyBodies : MarkerArrive(m, b)
  \/ \E m \in Markers : Click(m)
  \/ \E c \in Callers : FetchReject(c)
  \/ \E c \in Callers, b \in InlineBodies : FetchOkStream(c, b)
  \/ \E c \in Callers : ReadChunk(c, Len(calls[c].body) - calls[c].pos)
  \/ \E c \in Callers : ReadDone(c)
  \/ \E v \in BOOLEAN : SetEnableInline(v)
  \/ Scan

SpecInline == InitRef /\ [][NextInline]_vars

\* ------------------------------------------------- the keys of the cache
\* Marker bodies with line breaks, spaces and character references, each
\* clicked and generated with the same image.
KeyBodies ==
  { <<"a", BR, "b">>, <<"a", SP, SP, "b">>,
    EntAmp \o <<"a", ";">>, EntAmp \o <<"b", ";">> }

NextKey ==
  \/ \E m \in Markers, b \in KeyBodies : MarkerArrive(m, b)
  \/ \E m \in Markers : Click(m)
  \/ \E c \in Callers : FetchOkStream(c, ImageBody)
  \/ \E c \in Callers : ReadChunk(c, Len(calls[c].body) - calls[c].pos)
  \/ \E c \in Callers : ReadDone(c)

SpecKey == InitRef /\ [][NextKey]_vars

\* ------------------------------------------------- markers without a body
\* Markers whose body is empty (image######), blank or a word, clicked with
\* and without a reference image in the list.
EmptyBodies == {<<>>, <<SP>>, <<"c">>}

NextEmpty ==
  \/ \E m \in Markers, b \in EmptyBodies : MarkerArrive(m, b)
  \/ \E m \in Markers : Click(m)
  \/ \E c \in Callers : FetchReject(c)
  \/ AddStart("a1", "f1")
  \/ AddLoaded("a1")

SpecEmpty == InitRef /\ [][NextEmpty]_vars

\* --------------------------------------------- the reference list on its own
\* the panel alone: drops and picks of files, removals and the clear button
NextAdd ==
  \/ \E a \in AddSlots, f \in Files : AddStart(a, f)
  \/ \E a \in AddSlots : AddLoaded(a)
  \/ \E a \in AddSlots : AddFailed(a)
  \/ \E i \in 1..(MaxRefImages + Cardinality(AddSlots)) : removeReferenceImage(i)
  \/ clearAllImages

SpecAdd == Init /\ [][NextAdd]_vars

\* JSON frame without a delta.
StreamLines ==
  { <<"d", "a", "t", "a", ":", " ", "{", "a", "}">>,
    <<"d", "a", "t", "a", ":", "{", "b", "}">>,
    <<"d", "a", "t", "a", ":", " ", "{", "a">>,
    <<"d", "a", "t", "a", ":", " ", "[", "D", "O", "N", "E", "]">>,
    <<":", "k">>,
    <<>>,
    <<" ", "d", "a", "t", "a", ":", " ", "{", "b", "}", "\r">>,
    <<"d", "a", "t", "a", ":", " ", "<", "a", ">">> }

RECURSIVE BodiesOf(_)
BodiesOf(n) ==
  IF n = 0 THEN {<<>>}
  ELSE BodiesOf(n - 1)
         \cup {b \o l \o <<NL>> : b \in BodiesOf(n - 1), l \in StreamLines}

\* bodies of up to MaxLines lines, the last one with or without its newline
StreamBodies ==
  BodiesOf(MaxLines) \cup {b \o l : b \in BodiesOf(MaxLines - 1), l \in StreamLines}

\* generateImage of q1 has sent its request and got a 2xx streamed response
InitStream ==
  /\ isGenerating = TRUE
  /\ settings = ConfiguredSettings
  /\ heap = [a \in ArrIds |-> <<>>]
  /\ adds = [a \in AddSlots |-> IdleAdd]
  /\ \E body \in StreamBodies :
       calls = [c \in Callers |->
                  IF c = "q1"
                  THEN [IdleCall EXCEPT !.pc = "reading", !.prompt = <<"a">>,
                                        !.sent = buildMessages(<<"a">>, <<>>),
                                        !.sentStream = TRUE, !.body = body]
                  ELSE IdleCall]
  /\ dom = [m \in Markers |-> AbsentNode]
  /\ posts = 1
  /\ out = NoOut

NextStream ==
  \/ \E k \in 1..MaxChunk : ReadChunk("q1", k)
  \/ ReadDone("q1")

SpecStream == InitStream /\ [][NextStream]_vars

\* ------------------------------------- the read loop of src/index.js
\* (the loop of the v1.8.0 file, part_000:271-290, is the same text)
DataSpacePrefix == DataPrefix \o <<SP>>

\* the body of `for (const line of lines)`: the new value of content
ChunkLine(content, line) ==
  IF StartsWith(line, DataSpacePrefix)
  THEN LET data == Trim(SubSeq(line, Len(DataSpacePrefix) + 1, Len(line)))
           json == JSONParse(data)
       IN IF data = DoneMark THEN content
          ELSE IF json.ok /\ json.shape = "delta" THEN content \o json.s
          ELSE content
  ELSE content

\* one pass of the while loop: chunk.split('\n') and the for loop over it
ChunkLines(content, chunk) ==
  LET lines == SplitLines(chunk)
      F[i \in 0..Len(lines)] ==
        IF i = 0 THEN content ELSE ChunkLine(F[i - 1], lines[i])
  IN F[Len(lines)]

\* one reader.read() that delivers the next k characters
ReadChunkIndex(c, k) ==
  /\ calls[c].pc = "reading"
  /\ k >= 1
  /\ calls[c].pos + k <= Len(calls[c].body)
  /\ LET chunk == SubSeq(calls[c].body, calls[c].pos + 1, calls[c].pos + k)
     IN calls' = [calls EXCEPT ![c] = [@ EXCEPT !.pos = @ + k,
                                                !.content = ChunkLines(@, chunk)]]
  /\ UNCHANGED <<isGenerating, settings, heap, adds, dom, posts>> /\ out' = NoOut

\* reader.read() reports done: `return content`, then the finally block
ReadDoneIndex(c) ==
  /\ calls[c].pc = "reading"
  /\ calls[c].pos = Len(calls[c].body)
  /\ isGenerating' = FALSE
  /\ calls' = [calls EXCEPT ![c] = IdleCall]
  /\ out' = [NoOut EXCEPT !.who = c, !.outcome = "ok",
                           !.ret = Str(calls[c].content), !.status = 200,
                           !.body = calls[c].body, !.acc = calls[c].content]
  /\ UNCHANGED <<settings, heap, adds, dom, posts>>

NextChunkLoop ==
  \/ \E k \in 1..MaxChunk : ReadChunkIndex("q1", k)
  \/ ReadDoneIndex("q1")

SpecChunkLoop == InitStream /\ [][NextChunkLoop]_vars

\* the delta a line of the body carries: it is a `data:` line, its payload is
\* not [DONE] and parses as a JSON frame
LineDelta(rawLine) ==
  LET line == Trim(rawLine)
      payload == StripDataPrefix(line)
  IN IF StartsWith(line, DataPrefix) /\ payload # DoneMark
        /\ JSONParse(payload).ok /\ JSONParse(payload).shape = "delta"
     THEN JSONParse(payload).s ELSE <<>>

ExpectedDeltas(body) ==
  Flatten([i \in 1..Len(SplitLines(body)) |-> LineDelta(SplitLines(body)[i])])

\* the unterminated line at the end of what was received, and what precedes it
PartialLine(raw) == SplitLines(raw)[Len(SplitLines(raw))]
CompleteLines(raw) == SubSeq(raw, 1, Len(raw) - Len(PartialLine(raw)))

\* C3: however the body is cut into chunks, the content accumulated when the
\* stream ends is the concatenation, in arrival order, of the deltas of the
\* body's well-formed data lines (malformed frames are skipped and do not end
\* the call); while reading, the content is that of the complete lines
\* received so far and the line buffer holds the unfinished line.
C3_ChunkingIndependent ==
  /\ out.who = "q1" => /\ out.outcome \in {"ok", "upstream"}
                       /\ out.acc = ExpectedDeltas(out.body)
  /\ calls["q1"].pc = "reading" =>
       /\ calls["q1"].lineBuffer = PartialLine(rawBuffer("q1"))
       /\ calls["q1"].content = ExpectedDeltas(CompleteLines(rawBuffer("q1")))

\* a chunk ended inside the JSON text of the frame {b}, after an earlier frame
\* had contributed its delta
C3_Witness ==
  /\ calls["q1"].pc = "reading"
  /\ calls["q1"].content # <<>>
  /\ calls["q1"].lineBuffer # <<>>
  /\ calls["q1"].lineBuffer[Len(calls["q1"].lineBuffer)] = "{"
  /\ calls["q1"].pos + 2 <= Len(calls["q1"].body)
  /\ calls["q1"].body[calls["q1"].pos + 1] = "b"
  /\ calls["q1"].body[calls["q1"].pos + 2] = "}"

\* ==================================================================== claims
InFlight == {c \in Callers : calls[c].pc # "idle"}

\* the step is a call of generateImage by c (it returns at once or starts)
CallStep(c) ==
  /\ calls[c].pc = "idle"
  /\ \/ calls'[c].pc # "idle"
     \/ out'.who = c /\ out'.outcome # "none"

\* the step ends the call of c that was under way
ResolveStep(c) == calls[c].pc # "idle" /\ calls'[c].pc = "idle"

\* C1: a generateImage call made while the flag is held returns null at once
\* and sends nothing (it is not queued either), and at no time is more than
\* one request under way.
C1_BusyGate ==
  /\ [](Cardinality(InFlight) <= 1)
  /\ [][\A c \in Callers :
          (isGenerating /\ CallStep(c)) =>
             /\ out'.who = c /\ out'.outcome = "busy" /\ out'.ret = Null
             /\ posts' = posts
             /\ calls' = calls]_vars

\* a call has just been turned away while another one waits for its response
C1_Witness ==
  /\ out.outcome = "busy" /\ out.ret = Null
  /\ \E c \in Callers : calls[c].pc = "fetch" /\ c # out.who

\* C2: the flag is set exactly while one call that acquired it is under way:
\* it is taken only by a call that starts, given back only by the step that
\* ends that call, whatever its outcome, and a call turned away (busy or not
\* configured) leaves it as it was.
C2_FlagReleased ==
  /\ [](isGenerating <=> InFlight # {})
  /\ [][/\ (isGenerating /\ ~isGenerating') <=> (\E c \in Callers : ResolveStep(c))
        /\ (\A c \in Callers : ResolveStep(c) => ~isGenerating')
        /\ (out'.outcome \in {"busy", "config"} => isGenerating' = isGenerating)]_vars

\* a call has just ended in an error and the flag is free again
C2_Witness ==
  /\ out.outcome \in {"network", "status", "parse", "upstream"}
  /\ ~isGenerating

\* the marker text of m is replaced by its rendering in this step
Substituted(m) == dom[m].st \in {"absent", "raw"} /\ dom'[m].st \notin {"absent", "raw"}

\* the marker text of m arrives in this step and the observer's scan sees it
Arrived(m) == dom[m].st = "absent" /\ dom'[m].st # "absent"

\* the marker text of m is there, not yet replaced, before or in this step
Unrendered(m) == dom[m].st \in {"absent", "raw"} /\ dom'[m].st # "absent"

\* the cache key of the marker text of a node
BodyKey(node) == getPromptCacheKey(cleanPrompt(node.body))

InlineSuccess(m) == ResolveStep(m) /\ out'.who = m /\ out'.notice = "success"

MarkerState(node) ==
  IF node.st = "trigger" THEN (IF node.label = "gen" THEN "untriggered" ELSE "failed")
  ELSE IF node.st = "loading" THEN "pending"
  ELSE IF node.st = "result" THEN "generated"
  ELSE "none"

\* the call of m that ends in this step returned content with an image in it
ImageReturned(m) ==
  /\ ResolveStep(m)
  /\ Truthy(out'.ret)
  /\ Truthy(extractImageFromContent(out'.ret.val))

\* C5: a rendered marker occurrence changes state only from untriggered or
\* failed to pending by a click that starts a generation, from pending to
\* generated when its generation returns content with an extractable image,
\* and from pending to failed when it ends otherwise (a click whose call is
\* turned away at once passes through pending to failed within the step);
\* a generated occurrence keeps its state and its image.
C5_MarkerTransitions ==
  [][\A m \in Markers :
       LET s == MarkerState(dom[m])
           t == MarkerState(dom'[m])
       IN /\ (s # "none" /\ t # s) =>
               \/ /\ s \in {"untriggered", "failed"} /\ t = "pending"
                  /\ calls[m].pc = "idle" /\ calls'[m].pc = "fetch"
               \/ /\ s = "pending" /\ t = "generated"
                  /\ ImageReturned(m)
                  /\ dom'[m].img = extractImageFromContent(out'.ret.val).val
               \/ /\ s = "pending" /\ t = "failed"
                  /\ ResolveStep(m) /\ ~ImageReturned(m)
               \/ /\ s = "untriggered" /\ t = "failed"
                  /\ out'.who = m /\ out'.outcome = "config" /\ out'.ret = Null
          /\ s = "generated" => dom'[m] = dom[m]]_vars

\* one occurrence is generated and another one has failed
C5_Witness ==
  \E m, n \in Markers :
    /\ MarkerState(dom[m]) = "generated"
    /\ MarkerState(dom[n]) = "failed"
    /\ Len(settings.generatedHistory) > 0

\* the endpoint or the credential is missing
ConfigMissing == normalizeApiUrl(settings.apiUrl) = <<>> \/ settings.apiKey = <<>>

\* C11: a generateImage call made while the normalized endpoint URL or the
\* credential is empty returns null, sends no request, starts nothing and
\* leaves the busy flag as it was; with the flag free it reports the
\* configuration error.
C11_ConfigMissing ==
  [][\A c \in Callers :
       (CallStep(c) /\ ConfigMissing) =>
          /\ out'.who = c /\ out'.ret = Null
          /\ (~isGenerating => out'.outcome = "config" /\ out'.msg = Msg("config"))
          /\ posts' = posts
          /\ calls' = calls
          /\ isGenerating' = isGenerating]_vars

\* a call was turned away for an endpoint that is empty only once normalized
C11_Witness ==
  /\ out.outcome = "config" /\ out.ret = Null
  /\ settings.apiUrl # <<>> /\ settings.apiKey # <<>>
  /\ ~isGenerating

\* C12: a click on a marker made while the busy flag is set only warns: no
\* rendering changes, no request is sent and no invocation is started or
\* left waiting; requests are only ever sent by a step that found the flag
\* free, so nothing is sent later on behalf of that click.
C12_BusyClickWarns ==
  [][/\ \A m \in Markers :
          (isGenerating /\ Click(m)) =>
             /\ out'.who = m /\ out'.notice = "busyClick"
             /\ dom' = dom
             /\ posts' = posts
             /\ calls' = calls
             /\ settings' = settings
             /\ isGenerating'
     /\ posts' # posts => ~isGenerating]_vars

\* a failed marker has just been clicked while another one is generating
C12_Witness ==
  /\ out.notice = "busyClick"
  /\ isGenerating
  /\ \E m \in Markers : out.who = m /\ MarkerState(dom[m]) = "failed"

\* C13: a scan of the chat as it stands after any step changes nothing: no
\* rendered marker is substituted again, and every trigger has exactly one
\* click handler, however often processChatMessages runs.
C13_ScanIdempotent ==
  /\ processChatMessages(dom, settings) = dom
  /\ processChatMessages(processChatMessages(dom, settings), settings) = dom
  /\ \A m \in Markers : dom[m].st = "trigger" => dom[m].handlers = 1

\* a message was written anew while one of its markers was pending, and it
\* shows a trigger next to the spinner
C13_Witness ==
  \E m, n \in Markers :
    /\ MsgOf(m) = MsgOf(n)
    /\ dom[m].st = "loading" /\ dom[m].handlers = 0
    /\ dom[n].st = "trigger"
    /\ \E k \in Markers : dom[k].st = "result"

\* the marker of m is rendered as the image in this step
ReachesGenerated(m) ==
  MarkerState(dom[m]) = "pending" /\ MarkerState(dom'[m]) = "generated"

\* C14 (as stated): the inline generation of a marker changes history and
\* cache exactly when the marker reaches state generated: then the image and
\* the prompt are put at the front of the history and the cache maps the key
\* of the prompt to the image; when the click ends otherwise, or is turned
\* away as busy, history and cache stay as they were.
C14_HistoryAndCacheOnGenerated ==
  [][\A m \in Markers :
       /\ (ResolveStep(m) /\ ReachesGenerated(m)) =>
            /\ settings'.generatedHistory =
                 addToHistory(settings.generatedHistory, dom'[m].img, calls[m].prompt)
            /\ Head(settings'.generatedHistory) = [url |-> dom'[m].img, prompt |-> calls[m].prompt]
            /\ CacheGet(settings'.promptImageCache, getPromptCacheKey(calls[m].prompt))
                 = Str(dom'[m].img)
       /\ ((ResolveStep(m) \/ (isGenerating /\ Click(m))) /\ ~ReachesGenerated(m)) =>
            /\ settings'.generatedHistory = settings.generatedHistory
            /\ settings'.promptImageCache = settings.promptImageCache]_vars

\* the keys of a cache, in the order of their insertion
KeysOf(cache) == [i \in 1..Len(cache) |-> cache[i].key]

\* C15 (as stated): the cache never holds more than 50 entries, and an
\* insertion that overflows the bound drops the entry inserted longest ago.
C15_CacheEvictsOldest ==
  [][LET cache == settings.promptImageCache
         after == settings'.promptImageCache
     IN /\ Len(after) <= MaxCache
        /\ (Len(cache) = MaxCache /\ KeysOf(after) # KeysOf(cache)) =>
              /\ Len(after) = MaxCache
              /\ SubSeq(KeysOf(after), 1, MaxCache - 1) = Tail(KeysOf(cache))]_vars

\* the entries of a history are in the order newest first
NewestFirst(history) ==
  \A i, j \in 1..Len(history) :
    i < j => Len(history[i].prompt) > Len(history[j].prompt)

\* C16: the history never holds more than 20 entries and lists them newest
\* first; an addition puts the new entry in front of the others, and when 20
\* were present it drops the last (oldest) one and nothing else; a deletion
\* takes out one entry and keeps the order.
C16_HistoryBound ==
  /\ [](Len(settings.generatedHistory) <= MaxHistory)
  /\ [](NewestFirst(settings.generatedHistory))
  /\ [][LET h == settings.generatedHistory
            after == settings'.generatedHistory
        IN /\ (Len(h) = MaxHistory /\ Len(after) = MaxHistory /\ after # h) =>
                /\ Tail(after) = SubSeq(h, 1, MaxHistory - 1)
                /\ Len(Head(after).prompt) > Len(Head(h).prompt)
           /\ Len(after) > Len(h) => Tail(after) = h
           /\ Len(after) < Len(h) =>
                \E i \in 1..Len(h) : after = RemoveAt(h, i)]_vars

\* the list is full and has already lost entries to the bound
C16_Witness ==
  /\ Len(settings.generatedHistory) = MaxHistory
  /\ Len(settings.generatedHistory[MaxHistory].prompt) > 1
  /\ Len(Head(settings.generatedHistory).prompt) > MaxHistory + 1

\* the click handler has just run extractImageFromContent on out.ret.val
Extracted == out.who \in Markers /\ out.outcome = "ok" /\ Truthy(out.ret)

NotWhiteSpace(x) == x \notin WhiteSpace
IsBase64(s) == \A i \in 1..Len(s) : s[i] \in Base64Chars
HasUrlRule(c) == UrlMatches(c) # {}
HasMdRule(c) == MdMatches(c) # {}
HasDataRule(c) == DataMatches(c) # {}
HasBase64Rule(c) ==
  Len(SelectSeq(c, NotWhiteSpace)) > MinBase64Len /\ IsBase64(SelectSeq(c, NotWhiteSpace))

\* C17: the five rules are tried in the order markdown image, URL with an
\* image extension, prefixed data URI, raw base64, bare http(s) content, and
\* the first that matches gives the result; content with a markdown image and
\* a separate raw image URL gives the URL of the markdown image.
C17_RulePriority ==
  Extracted =>
    LET c == out.ret.val
    IN /\ HasMdRule(c) =>
            out.image = Str(SubSeq(c, MdFirst(c)[2] + 2, MdFirst(c)[3] - 1))
       /\ (~HasMdRule(c) /\ HasUrlRule(c)) =>
            out.image = Str(SubSeq(c, UrlFirst(c)[1], UrlFirst(c)[2]))
       /\ (~HasMdRule(c) /\ ~HasUrlRule(c) /\ HasDataRule(c)) =>
            out.image = Str(SubSeq(c, DataFirst(c)[1], DataFirst(c)[2]))
       /\ (~HasMdRule(c) /\ ~HasUrlRule(c) /\ ~HasDataRule(c) /\ HasBase64Rule(c)) =>
            out.image = Str(<<"D">> \o SelectSeq(c, NotWhiteSpace))
       /\ (~HasMdRule(c) /\ ~HasUrlRule(c) /\ ~HasDataRule(c) /\ ~HasBase64Rule(c)) =>
            IF StartsWith(Trim(c), <<"H">>)
            THEN ~out.image.isNull /\ StartsWith(out.image.val, <<"H">>)
            ELSE out.image = Null
       /\ \A post \in Prose :
            c = <<SP, "H", "b", "P", SP>> \o MdImage(<<"a">>, <<"u">>) \o post
              => out.image = Str(<<"u">>)

\* a raw image URL stands before the markdown image whose URL was returned
C17_Witness ==
  /\ Extracted
  /\ out.ret.val = <<SP, "H", "b", "P", SP>> \o MdImage(<<"a">>, <<"u">>)
                     \o <<SP, "H", "b", "P", SP>>
  /\ out.image = Str(<<"u">>)

\* C18 (as stated): content that holds a markdown image ![alt](url) gives
\* exactly url, whatever stands before and after the image.
C18_MarkdownUrl ==
  \A pre \in Prose, post \in Prose, alt \in Alts, url \in Urls :
    (Extracted /\ out.ret.val = pre \o MdImage(alt, url) \o post)
      => out.image = Str(url)

\* C19: content that is only base64 characters once all whitespace is taken
\* out gives the data URI prefix followed by the stripped content when more
\* than 100 characters remain, and null when fewer than 100 remain.
C19_RawBase64 ==
  LET stripped == SelectSeq(out.ret.val, NotWhiteSpace)
  IN (Extracted /\ stripped # <<>> /\ IsBase64(stripped)) =>
       /\ Len(stripped) > MinBase64Len => out.image = Str(<<"D">> \o stripped)
       /\ Len(stripped) < MinBase64Len => out.image = Null

\* 101 base64 characters with whitespace around and between them were turned
\* into a data URI
C19_Witness ==
  /\ Extracted
  /\ Len(SelectSeq(out.ret.val, NotWhiteSpace)) = MinBase64Len + 1
  /\ Len(out.ret.val) > MinBase64Len + 1
  /\ IsBase64(SelectSeq(out.ret.val, NotWhiteSpace))
  /\ out.image = Str(<<"D">> \o SelectSeq(out.ret.val, NotWhiteSpace))

\* C6 (as stated): the reference image list never holds more than three
\* images, whatever the interleaving of adds (several of them waiting for
\* their file at once), removals and clears.
C6_RefListBound == Len(referenceImages) <= MaxRefImages

\* the call of c that ends in this step produced no image
NoImageStep(c) ==
  /\ ResolveStep(c)
  /\ \/ out'.ret = Null
     \/ extractImageFromContent(out'.ret.val) = Null

\* C7 (as stated): a generation that ends without an image (transport error,
\* error status, or a response from which no image can be extracted) leaves
\* the reference image list as it was, and so does any generation while
\* fixReferenceImages is set.
C7_RefListKeptOnFailure ==
  [][\A c \in Callers :
       (NoImageStep(c) \/ (ResolveStep(c) /\ settings.fixReferenceImages))
         => referenceImages' = referenceImages]_vars

\* C8 (as stated): whether the list is cleared after a generation depends
\* only on the images taken at call time: a call that was made with no
\* reference image leaves the list as it is, whatever was added meanwhile.
C8_RefCapturedByValue ==
  [][\A c \in Callers :
       (ResolveStep(c) /\ calls[c].sentImages = <<>>)
         => referenceImages' = referenceImages]_vars

\* the image_url parts for a list of images, in list order
ImageParts(images) == [i \in 1..Len(images) |-> [type |-> "image_url", val |-> images[i]]]

\* C20 (as stated): the request of a call holds one user message; its content
\* is the prompt as a bare string when the call has no reference images, and
\* otherwise the list of the text part followed by one image_url part for each
\* reference image, in list order.
C20_MessageShape ==
  \A c \in Callers :
    calls[c].pc # "idle" =>
      LET sent == calls[c].sent
          text == FinalPrompt(settings.promptPrefix, calls[c].prompt)
      IN /\ sent.role = "user"
         /\ calls[c].sentImages = <<>> => sent.bare /\ sent.text = text
         /\ calls[c].sentImages # <<>> =>
              /\ ~sent.bare
              /\ sent.parts = <<[type |-> "text", val |-> text]>>
                                \o ImageParts(calls[c].sentImages)

\* the message the claim expects for a non-2xx response
ClaimedApiError(status, body) ==
  [kind |-> "api", status |-> status,
   text |-> IF JSONParse(body).ok THEN JSONParse(body).s ELSE body]

\* C9 (as stated): after a non-2xx response the call returns null and reports
\* "API Error <status>: <message>", the message being the nested error message
\* of a JSON body and the raw text of a body that is not JSON.
C9_ApiErrorMessage ==
  (out.outcome = "status"
     /\ (JSONParse(out.body).ok => JSONParse(out.body).shape = "error"
                                     /\ JSONParse(out.body).s # <<>>))
    => /\ out.ret = Null
       /\ out.msg = ClaimedApiError(out.status, out.body)

FailureOutcomes == {"busy", "config", "network", "status", "parse", "upstream"}

\* C10: every failure of generateImage returns null to the caller, sends at
\* most the one request of the call and does not send it again.
C10_FailuresReturnNull ==
  /\ [](out.outcome \in FailureOutcomes => out.ret = Null)
  /\ [][/\ posts' # posts =>
             /\ posts' = posts + 1
             /\ \E c \in Callers : calls[c].pc = "idle" /\ calls'[c].pc = "fetch"
        /\ \A c \in Callers :
             calls[c].pc # "idle" =>
               (calls'[c].pc = "fetch" => calls[c].pc = "fetch" /\ posts' = posts)
        /\ out'.outcome \in {"busy", "config"} => posts' = posts]_vars

\* a 2xx response that is not JSON, in non-streaming mode, ended the call
C10_Witness ==
  /\ out.outcome = "parse" /\ out.ret = Null /\ posts > 0

\* an element that took the place of a marker text
Rendered(node) == node.st \in {"trigger", "loading", "result"}

\* C21: a step that ends with enableInline false substitutes no marker text,
\* and leaves every substituted element as it was, but for the element of the
\* marker whose click handler acts in the step; a step that switches the
\* setting on substitutes every marker text that was waiting.
C21_DisabledScanInert ==
  [][/\ ~settings'.enableInline =>
          \A m \in Markers :
            /\ ~Substituted(m)
            /\ (Rendered(dom[m]) /\ out'.who # m) => dom'[m] = dom[m]
     /\ (~settings.enableInline /\ settings'.enableInline) =>
          \A m \in Markers : dom'[m].st # "raw"]_vars

\* the setting is off, one marker text waits unsubstituted in a message that
\* shows an element substituted earlier
C21_Witness ==
  /\ ~settings.enableInline
  /\ \E m, n \in Markers :
       /\ MsgOf(m) = MsgOf(n)
       /\ dom[m].st = "raw"
       /\ dom[n].st \in {"trigger", "result"}

\* the texts the loop of src/index.js hands to JSON.parse for a piece of text
ParsedFrames(text) ==
  {Trim(SubSeq(l, Len(DataSpacePrefix) + 1, Len(l))) :
     l \in {SplitLines(text)[i] : i \in 1..Len(SplitLines(text))}
            \cap {x \in {SplitLines(text)[i] : i \in 1..Len(SplitLines(text))} :
                    StartsWith(x, DataSpacePrefix)}}
    \ {DoneMark}

\* the deltas of the lines of a body, each line taken whole
WholeLineDeltas(body) == ChunkLines(<<>>, body)

\* C22 (as stated): in the loop of src/index.js every text handed to JSON.parse
\* in a read is the payload of a complete `data:` line of the body, and the
\* content returned when the stream ends is the concatenation of the deltas
\* of the body's data lines, however the body was cut into chunks.
C22_LineBuffered ==
  [][/\ calls'["q1"].pos > calls["q1"].pos =>
          ParsedFrames(SubSeq(calls["q1"].body, calls["q1"].pos + 1, calls'["q1"].pos))
            \subseteq ParsedFrames(calls["q1"].body)
     /\ out'.who = "q1" => out'.acc = WholeLineDeltas(out'.body)]_vars

\* the streamed call of c ends in this step, the stream having ended
StreamEnded(c) ==
  /\ calls[c].pc = "reading" /\ calls'[c].pc = "idle"
  /\ out'.who = c /\ out'.outcome # "network"

\* C23: when the stream of a call has ended, a non-empty accumulator is the
\* content returned; with an empty accumulator the data lines of the raw
\* buffer are scanned again, then the raw buffer is parsed as JSON, and raw
\* text that is not JSON is returned trimmed; a raw buffer that is a JSON
\* object with an error makes the call return null and report the message of
\* that error.
C23_FallbackChain ==
  [][\A c \in Callers :
       StreamEnded(c) =>
         LET acc == out'.acc
             raw == out'.body
             json == JSONParse(raw)
         IN /\ acc # <<>> => out'.outcome = "ok" /\ out'.ret = Str(acc)
            /\ (acc = <<>> /\ ExpectedDeltas(raw) # <<>>) =>
                  out'.outcome = "ok" /\ out'.ret = Str(ExpectedDeltas(raw))
            /\ (acc = <<>> /\ ExpectedDeltas(raw) = <<>>) =>
                  /\ (json.ok /\ json.shape = "error") =>
                        /\ out'.outcome = "upstream" /\ out'.ret = Null
                        /\ out'.msg.kind = "upstream"
                        /\ json.s # <<>> => out'.msg.text = json.s
                  /\ (json.ok /\ json.shape # "error") =>
                        out'.outcome = "ok" /\ out'.ret # Null
                  /\ ~json.ok => out'.outcome = "ok" /\ out'.ret = Str(Trim(raw))]_vars

\* a streamed response whose whole text was the JSON error object ended a call
C23_Witness ==
  /\ out.outcome = "upstream" /\ out.ret = Null
  /\ out.acc = <<>> /\ out.body = <<"^", "a", "^">>
  /\ out.msg.text = <<"a">>

\* C24: as long as the request of a call has not settled, the busy flag stays
\* set, no further request is issued, and whatever a generate handler or a
\* marker click reports is the busy rejection; nothing but the settling of
\* the request ends this.
C24_HungRequestBlocks ==
  [][\A c \in Callers :
       (calls[c].pc = "fetch" /\ calls'[c].pc = "fetch") =>
         /\ isGenerating /\ isGenerating'
         /\ posts' = posts
         /\ \A d \in Callers \ {c} : calls'[d].pc = "idle"
         /\ out'.who \in Callers =>
              /\ out'.outcome = "busy" \/ out'.notice = "busyClick"
              /\ out'.ret = Null
              /\ dom' = dom]_vars

\* with the request of one call unsettled, a click on a trigger was turned
\* away
C24_Witness ==
  \E c \in Callers :
    /\ calls[c].pc = "fetch"
    /\ isGenerating
    /\ out.who \in Markers \ {c} /\ out.notice = "busyClick"

\* the normalized form of a marker body, as the claim words it
DecodedMarkup(body) ==
  ReplaceAll(ReplaceAll(ReplaceAll(ReplaceAll(ReplaceAll(ReplaceAll(
    body, <<BR>>, <<NL>>), EntLt, <<"<">>), EntGt, <<">">>), EntAmp, <<"&">>),
    EntQuot, <<DQ>>), EntApos, <<SQ>>)
NormalizedForm(body) ==
  Substring(Trim(CollapseWhiteSpace(DecodedMarkup(body))), KeyLen)

\* C25 (as stated): the key under which a marker body is looked up in the cache
\* is its normalized form (line breaks to newlines, character references
\* decoded, whitespace runs collapsed, trimmed, first 100 characters); the
\* key written by a successful generation of the marker is that same key; two
\* marker bodies in the chat have the same key only if their normalized forms
\* are the same.
C25_KeyIsNormalizedForm ==
  [][/\ \A m \in Markers :
          dom'[m].st # "absent" => BodyKey(dom'[m]) = NormalizedForm(dom'[m].body)
     /\ \A m \in Markers :
          InlineSuccess(m) =>
            /\ getPromptCacheKey(calls[m].prompt) = BodyKey(dom[m])
            /\ HasKey(settings'.promptImageCache, BodyKey(dom[m]))
     /\ \A m, n \in Markers :
          (dom'[m].st # "absent" /\ dom'[n].st # "absent"
             /\ BodyKey(dom'[m]) = BodyKey(dom'[n]))
            => NormalizedForm(dom'[m].body) = NormalizedForm(dom'[n].body)]_vars

\* the 2xx response of c starts to be read as a stream in this step
ConsumedAsStream(c) == calls[c].pc = "fetch" /\ calls'[c].pc = "reading"

\* the 2xx response of c is read with response.json() in this step
ConsumedAsJson(c) ==
  /\ calls[c].pc = "fetch" /\ calls'[c].pc = "idle"
  /\ out'.who = c /\ out'.status = 200 /\ out'.outcome \in {"ok", "parse"}

\* C26 (as stated): a response is read as a stream when its request carried
\* stream: true and with response.json() when it carried stream: false,
\* whatever the stream setting is by the time the response arrives.
C26_ModeOfRequest ==
  [][\A c \in Callers :
       /\ ConsumedAsStream(c) => calls[c].sentStream
       /\ ConsumedAsJson(c) => ~calls[c].sentStream]_vars

\* the addReferenceImage call of a stores its image in this step
AddCompleted(a) ==
  adds[a].pc = "reading" /\ adds'[a].pc = "idle" /\ out'.notice = "imageAdded"

\* the reference list after the step
referenceImagesAfter == heap'[settings'.referenceImages]

\* C27 (as stated): the step in which an addReferenceImage call stores its
\* image leaves the list as it was before the step with that image appended;
\* after a clear, the images the list held before the clear are not put back
\* by a call that was reading its file when the clear ran.
C27_ClearedImagesStayCleared ==
  [][\A a \in AddSlots :
       AddCompleted(a) =>
         referenceImagesAfter = Append(referenceImages, adds[a].file)]_vars

\* C28 (as stated): a click on the trigger of a marker sends a request only
\* if the cache has no entry for the key of the marker's body at that moment.
C28_NoRequestForCachedKey ==
  [][\A m \in Markers :
       (calls[m].pc = "idle" /\ calls'[m].pc = "fetch") =>
         ~HasKey(settings.promptImageCache, BodyKey(dom[m]))]_vars

\* C29 (as stated): the step in which the generateImage call of a pending
\* marker resolves leaves the marker generated or failed (a trigger to click
\* again), also when the message was written anew while the call was under
\* way.
C29_PendingLeavesOnResolve ==
  [][\A m \in Markers :
       (ResolveStep(m) /\ MarkerState(dom[m]) = "pending") =>
         MarkerState(dom'[m]) \in {"generated", "failed"}]_vars

\* a user message with nothing in it: the empty string or an empty part list
EmptyMessage(sent) ==
  \/ sent.bare /\ sent.text = <<>>
  \/ ~sent.bare /\ sent.parts = <<>>

\* C30 (as stated): no step sends a request whose user message is empty; a
\* call with an empty prompt and no reference images sends nothing.
C30_NoEmptyRequest ==
  [][\A c \in Callers :
       (calls[c].pc = "idle" /\ calls'[c].pc = "fetch") =>
         /\ ~EmptyMessage(calls'[c].sent)
         /\ posts' = posts + 1]_vars

====
